---------------------------- MODULE Spec2Model ----------------------------
(***************************************************************************)
(* A model of the PECFEST 2019 backend: the relational schema of           *)
(* events/models.py (rows, foreign keys and their on_delete rules, unique  *)
(* columns), BaseModel.save with its audit timestamps, the change history  *)
(* of Event, path_and_rename, and the bulk import of registrations that    *)
(* settings/production.py configures.                                      *)
(*                                                                         *)
(* Requests run side by side on one database.  A step of the model is one  *)
(* statement or one transaction of one request: the loading of an          *)
(* instance, one SELECT of Collector.collect, the transaction of           *)
(* Collector.delete, the UPDATE of a save, the INSERT of a save, the       *)
(* SELECT and the INSERT of members.add, the insert of a snapshot of the   *)
(* history.  What a request holds between its steps (the instance it       *)
(* loaded, the rows it collected) is kept with the request; it is not read *)
(* again.  A reading of the clock belongs to no statement: the step that   *)
(* uses one takes any value that the clock may have shown since the        *)
(* previous step of the request.                                           *)
(*                                                                         *)
(* BaseModel is not declared abstract, so every model that extends it      *)
(* keeps its rows in its own table joined to a shared parent table, whose  *)
(* AUTO_INCREMENT column gives all of them their identifiers.  A table of  *)
(* the model is the rows of one model, its parent rows included.  The      *)
(* columns that no foreign key, unique column or validator involves are    *)
(* left out of the rows (texts, dates, images, Event.coordinators, and the *)
(* audit columns of the models other than Event).                          *)
(***************************************************************************)
EXTENDS Integers, Sequences, FiniteSets, TLC

(***************************************************************************)
(* Bounds of the model.                                                    *)
(***************************************************************************)
\* The identifiers drawn from the sequence of BaseModel: when every table is
\* in use, in all and by the instances of one model; when users, events, registrations and the winner tables are; when
\* only Event is; when events and imported registrations are.
MaxIds == 4

MaxOfModel == 1

MaxWinnerIds == 4

MaxWinnersIds == 5

MaxEventIds == 2

MaxImportIds == 4

\* The identifiers drawn from the sequence of the users, and when the users
\* are the owners of DetailWinner records.
MaxUsers == 2

MaxOwners == 1

\* The snapshots of the history, with the ones still to be inserted, when
\* other tables than Event are in use, and when only Event is.
MaxSnapshots == 2

MaxHistory == 3

\* The requests that are under way at the same time: the ones that save an
\* Event or delete, when other tables than Event are in use (MaxInFlight) and
\* when only Event is (MaxSaving); the ones that have an INSERT left to send,
\* of a save whose UPDATE matched no row or of members.add, in the
\* specifications of the saves they are about (MaxSaving) and in the others
\* (MaxInFlight).
MaxInFlight == 1

MaxSaving == 2

\* The latest time the clock shows, when only Event is in use, and when the
\* other tables are in use too.
MaxClock == 1

MaxTime == 0

\* The length of an uploaded file name.
MaxLen == 4

\* The rows of an import.
MaxBatch == 2

\* null=True: the value of a nullable reference that references nothing, and
\* the identifier of an instance that was never saved.
NULL == 0

VARIABLES
    users,          \* auth.User: the set of identifiers of the users
    perms,          \* auth.User.user_permissions: the pairs <<user, code name>>
    categories,     \* EventCategory: the set of identifiers
    types,          \* EventType: id -> [eventCategory]
    clubs,          \* Club: the set of identifiers
    events,         \* Event: id -> [id, eventType, association, name, minTeam,
                    \*   maxTeam, record_created, record_modified]
    registrations,  \* Registration: id -> [registered_event, participant]
    details,        \* DetailWinner: id -> [user]
    teams,          \* TeamWinner: id -> [members], the rows of the m2m table
    winners,        \* Winners: id -> [eventName, firstWinner, secondWinner, thirdWinner]
    sponsors,       \* Sponsor: the set of identifiers
    brochures,      \* Brochure: the set of identifiers
    history,        \* HistoricalEvent: the snapshots of Event, by history_id
    now,            \* the clock: the latest value that timezone.now() returned
    sequence,       \* the AUTO_INCREMENT values that the table of BaseModel
                    \*   gave out: sequence[i] is the table whose insert drew i
    userSequence,   \* the last AUTO_INCREMENT value of the table of the users
    inflight,       \* the requests under way, each with what it holds
    result,         \* what the last step returned or raised
    upload,         \* the last call of path_and_rename: its arguments and its value
    report          \* the last import of registrations: its dataset and totals

dbvars == <<users, perms, categories, types, clubs, events, registrations,
            details, teams, winners, sponsors, brochures, history>>

vars == <<users, perms, categories, types, clubs, events, registrations,
          details, teams, winners, sponsors, brochures, history, now, sequence, userSequence,
          inflight, result, upload, report>>

\* What a statement that only stores rows leaves alone, besides the requests
\* under way.
nodb == <<history, now, upload, report>>

\* The two sequences of identifiers.
ids == <<sequence, userSequence>>

----------------------------------------------------------------------------
(* Helpers over tables *)

\* The table f with the row r stored under the identifier i.
WithRow(f, i, r) == [x \in DOMAIN f \cup {i} |-> IF x = i THEN r ELSE f[x]]

\* The identifier that the next insert into the table of BaseModel draws.  A
\* value is drawn once: a deleted row or a refused insert does not free it.
NewId == Len(sequence) + 1

\* The identifiers drawn for instances of a model: the ones an instance in
\* the memory of a request can hold, whether or not its row is stored.
Issued(table) == {i \in 1..Len(sequence) : sequence[i] = table}

IssuedUsers == 1..userSequence

\* The row of a Winners instance.
WinnersRow(e, f, s, t) ==
    [eventName |-> e, firstWinner |-> f, secondWinner |-> s, thirdWinner |-> t]

----------------------------------------------------------------------------
(* The foreign keys of events/models.py and their on_delete rules *)

\* Variants of the rules below, as a slip in the declaration would write them.
Event_eventType_CASCADE == "CASCADE"

Registration_registered_event_DO_NOTHING == "DO_NOTHING"

Winners_eventName_CASCADE == "CASCADE"

Winners_secondWinner_SET_NULL == "SET_NULL"

EventType_eventCategory_on_delete == "CASCADE"

Event_eventType_on_delete == "SET_NULL"

Event_association_on_delete == "SET_NULL"

Registration_registered_event_on_delete == "CASCADE"

Registration_participant_on_delete == "CASCADE"

DetailWinner_user_on_delete == "CASCADE"

Winners_eventName_on_delete == "PROTECT"

Winners_firstWinner_on_delete == "PROTECT"

Winners_secondWinner_on_delete == "PROTECT"

Winners_thirdWinner_on_delete == "PROTECT"

Tables == {"users", "categories", "types", "clubs", "events", "registrations",
           "details", "teams", "winners", "sponsors", "brochures"}

ForeignKey(child, col, parent, rule) ==
    [child |-> child, col |-> col, parent |-> parent, rule |-> rule]

\* The foreign keys in the order of their declaration, which is the order in
\* which Collector.collect follows the relations of a model.
ForeignKeys ==
    <<ForeignKey("types", "eventCategory", "categories",
                 EventType_eventCategory_on_delete),
      ForeignKey("events", "eventType", "types", Event_eventType_on_delete),
      ForeignKey("events", "association", "clubs", Event_association_on_delete),
      ForeignKey("registrations", "registered_event", "events",
                 Registration_registered_event_on_delete),
      ForeignKey("registrations", "participant", "users",
                 Registration_participant_on_delete),
      ForeignKey("details", "user", "users", DetailWinner_user_on_delete),
      ForeignKey("winners", "eventName", "events", Winners_eventName_on_delete),
      ForeignKey("winners", "firstWinner", "teams", Winners_firstWinner_on_delete),
      ForeignKey("winners", "secondWinner", "teams", Winners_secondWinner_on_delete),
      ForeignKey("winners", "thirdWinner", "teams", Winners_thirdWinner_on_delete)>>

\* The relations of a model that a delete of its rows follows: the foreign
\* keys that reference it.  (The rows of the many-to-many tables are deleted
\* by a query, without a SELECT.)
Relations(table) == SelectSeq(ForeignKeys, LAMBDA k : k.parent = table)

\* The rows of the table f whose column col references one of the rows in S.
Referencing(f, col, S) == {x \in DOMAIN f : f[x][col] \in S}

\* The table of the model that holds a foreign key.
Rows(child) ==
    CASE child = "types" -> types
      [] child = "events" -> events
      [] child = "registrations" -> registrations
      [] child = "details" -> details
      [] child = "winners" -> winners

\* The identifiers of the rows that a table holds.
Stored(table) ==
    CASE table = "users" -> users
      [] table = "categories" -> categories
      [] table = "clubs" -> clubs
      [] table = "teams" -> DOMAIN teams
      [] table = "sponsors" -> sponsors
      [] table = "brochures" -> brochures
      [] OTHER -> DOMAIN Rows(table)

\* The rows that reference, through the foreign key fk, one of the rows in S.
Refs(fk, S) == Referencing(Rows(fk.child), fk.col, S)

\* The rows that a delete removes: a set of identifiers for every table.
NoRows == [t \in Tables |-> {}]

Seed(table, id) == [NoRows EXCEPT ![table] = {id}]

\* A foreign key column holds the identifier of a row of the referenced table,
\* or NULL when the column is nullable.
References(v, rows, nullable) == (nullable /\ v = NULL) \/ v \in rows

\* The foreign key constraints of the database hold of the given tables.
ForeignKeysHold(us, pm, cats, tys, cls, evs, regs, dets, tms, wins) ==
    /\ \A q \in pm : q[1] \in us
    /\ \A x \in DOMAIN tys : References(tys[x].eventCategory, cats, TRUE)
    /\ \A x \in DOMAIN evs :
         /\ References(evs[x].eventType, DOMAIN tys, TRUE)
         /\ References(evs[x].association, cls, TRUE)
    /\ \A x \in DOMAIN regs :
         /\ References(regs[x].registered_event, DOMAIN evs, FALSE)
         /\ References(regs[x].participant, us, FALSE)
    /\ \A x \in DOMAIN dets : References(dets[x].user, us, FALSE)
    /\ \A x \in DOMAIN tms : tms[x].members \subseteq DOMAIN dets
    /\ \A x \in DOMAIN wins :
         /\ References(wins[x].eventName, DOMAIN evs, FALSE)
         /\ References(wins[x].firstWinner, DOMAIN tms, FALSE)
         /\ References(wins[x].secondWinner, DOMAIN tms, TRUE)
         /\ References(wins[x].thirdWinner, DOMAIN tms, TRUE)

----------------------------------------------------------------------------
(* What a step returns, and the requests under way *)

\* op: the operation; id: the row it creates, changes or deletes; request:
\* the request that took the step, for a request of several steps; status:
\* "ok", the exception raised, or how far the request has come ("loaded",
\* "collecting", "missed": the UPDATE of a save matched no row, "selected":
\* the SELECT of members.add found no row, "saved": the row of an Event is
\* stored, its snapshot not yet); deleted: the number of
\* rows of the tables of the model that a delete removed; key: the constraint
\* that an error names, or the column that a SELECT of a delete read; data:
\* the field values a request on Event gave, or the row of a Winners
\* instance that was sent to the database; rows: the rows that a delete has
\* collected.
Outcome(op, id, status) ==
    [op |-> op, id |-> id, request |-> 0, status |-> status, deleted |-> 0,
     key |-> "", data |-> <<>>, rows |-> NoRows]

\* A statement of the request n (0: a request of this one statement) is
\* refused, and nothing is stored.
Reject(op, n, id, status, key) ==
    /\ result' = [Outcome(op, id, status) EXCEPT !.request = n, !.key = key]
    /\ UNCHANGED <<dbvars, now, upload, report>>

\* A statement of the request n goes through.
Accept(op, n, id) == result' = [Outcome(op, id, "ok") EXCEPT !.request = n]

\* A request under way.  table: the model of the instance it saves or
\* deletes; at: the step it takes next ("save", "insert", "post_save",
\* "collect" for an Event or a delete, "INSERT" for the insert of another
\* model, "add" for the insert of members.add); instances: the instances it
\* holds, as it loaded, changed or stored them; created: the save inserted the row; rows,
\* nulls: the rows to delete and the columns to set to NULL that a delete
\* has collected; todo: the relations its collect has still to read; clock:
\* the time of its previous step; seen: the snapshots the history had when
\* the request stored the row of its Event (0 before).
Request(n, op, table, id, at, instances, todo, rows) ==
    [request |-> n, op |-> op, table |-> table, id |-> id, at |-> at,
     instances |-> instances,
     created |-> FALSE, rows |-> rows, nulls |-> {}, todo |-> todo,
     clock |-> now, seen |-> 0]

\* The number of a new request: the smallest that no request under way has.
NewRequest ==
    LET free == {n \in 1..(Cardinality(inflight) + 1) :
                    \A p \in inflight : p.request # n}
    IN  CHOOSE n \in free : \A m \in free : n <= m

\* The request p takes the step that makes it q.
Continue(p, q) == inflight' = (inflight \ {p}) \cup {q}

\* The request p ends with an exception, and nothing is stored.
Fail(p, status, key) ==
    /\ inflight' = inflight \ {p}
    /\ result' = [Outcome(p.op, p.id, status) EXCEPT
                     !.request = p.request, !.key = key]
    /\ UNCHANGED <<dbvars, upload, report>>
----------------------------------------------------------------------------
(* The saves of the models without a history.  Model.save of an instance    *)
(* that has an identifier sends an UPDATE by the identifier and, if no row  *)
(* matched, an INSERT under that identifier: two statements, between which  *)
(* other requests act.  Model.save of an instance without an identifier     *)
(* sends the INSERT only.  The database checks the primary key, the foreign *)
(* keys and the unique columns of each statement.  An insert of a model     *)
(* that extends BaseModel draws its identifier when the parent row is       *)
(* inserted, before the row of the model is checked.  The instance of an    *)
(* update is any one that a request holds: its row may have been deleted    *)
(* since.                                                                   *)

\* The UPDATE of the save op matched no row: the request goes on to insert the
\* row of its instance.
Missed(op, table, id, row) ==
    /\ inflight' = inflight \cup
         {Request(NewRequest, op, table, id, "INSERT", <<row>>, <<>>, NoRows)}
    /\ result' = [Outcome(op, id, "missed") EXCEPT !.request = NewRequest]
    /\ UNCHANGED <<dbvars, now, upload, report>>

\* The row of a model whose only modelled column is its identifier.
Plain(id) == [id |-> id]

\* The row of a user is stored by the statement of the request n.
SaveUser(op, n, u) ==
    /\ users' = users \cup {u}
    /\ Accept(op, n, u)
    /\ UNCHANGED <<perms, categories, types, clubs, events, registrations,
                   details, teams, winners, sponsors, brochures, nodb>>

\* User.objects.create(...)
CreateUser ==
    /\ SaveUser("CreateUser", 0, userSequence + 1)
    /\ userSequence' = userSequence + 1
    /\ UNCHANGED <<sequence, inflight>>

\* user.save() of a user that a request holds.
UpdateUser(u) ==
    /\ u \in IssuedUsers
    /\ IF u \in users
       THEN SaveUser("UpdateUser", 0, u) /\ UNCHANGED inflight
       ELSE Missed("UpdateUser", "users", u, Plain(u))
    /\ UNCHANGED ids

SaveClub(op, n, c) ==
    /\ clubs' = clubs \cup {c}
    /\ Accept(op, n, c)
    /\ UNCHANGED <<users, perms, categories, types, events, registrations,
                   details, teams, winners, sponsors, brochures, nodb>>

CreateClub ==
    /\ SaveClub("CreateClub", 0, NewId)
    /\ sequence' = Append(sequence, "clubs")
    /\ UNCHANGED <<userSequence, inflight>>

UpdateClub(c) ==
    /\ c \in Issued("clubs")
    /\ IF c \in clubs
       THEN SaveClub("UpdateClub", 0, c) /\ UNCHANGED inflight
       ELSE Missed("UpdateClub", "clubs", c, Plain(c))
    /\ UNCHANGED ids

SaveEventCategory(op, n, c) ==
    /\ categories' = categories \cup {c}
    /\ Accept(op, n, c)
    /\ UNCHANGED <<users, perms, types, clubs, events, registrations, details,
                   teams, winners, sponsors, brochures, nodb>>

CreateEventCategory ==
    /\ SaveEventCategory("CreateEventCategory", 0, NewId)
    /\ sequence' = Append(sequence, "categories")
    /\ UNCHANGED <<userSequence, inflight>>

UpdateEventCategory(c) ==
    /\ c \in Issued("categories")
    /\ IF c \in categories
       THEN SaveEventCategory("UpdateEventCategory", 0, c) /\ UNCHANGED inflight
       ELSE Missed("UpdateEventCategory", "categories", c, Plain(c))
    /\ UNCHANGED ids

\* Sponsor and Brochure reference no model and no model references them;
\* their inserts draw identifiers from the sequence of BaseModel.
SaveSponsor(op, n, x) ==
    /\ sponsors' = sponsors \cup {x}
    /\ Accept(op, n, x)
    /\ UNCHANGED <<users, perms, categories, types, clubs, events,
                   registrations, details, teams, winners, brochures, nodb>>

CreateSponsor ==
    /\ SaveSponsor("CreateSponsor", 0, NewId)
    /\ sequence' = Append(sequence, "sponsors")
    /\ UNCHANGED <<userSequence, inflight>>

UpdateSponsor(x) ==
    /\ x \in Issued("sponsors")
    /\ IF x \in sponsors
       THEN SaveSponsor("UpdateSponsor", 0, x) /\ UNCHANGED inflight
       ELSE Missed("UpdateSponsor", "sponsors", x, Plain(x))
    /\ UNCHANGED ids

SaveBrochure(op, n, b) ==
    /\ brochures' = brochures \cup {b}
    /\ Accept(op, n, b)
    /\ UNCHANGED <<users, perms, categories, types, clubs, events,
                   registrations, details, teams, winners, sponsors, nodb>>

CreateBrochure ==
    /\ SaveBrochure("CreateBrochure", 0, NewId)
    /\ sequence' = Append(sequence, "brochures")
    /\ UNCHANGED <<userSequence, inflight>>

UpdateBrochure(b) ==
    /\ b \in Issued("brochures")
    /\ IF b \in brochures
       THEN SaveBrochure("UpdateBrochure", 0, b) /\ UNCHANGED inflight
       ELSE Missed("UpdateBrochure", "brochures", b, Plain(b))
    /\ UNCHANGED ids

\* The row of an EventType is stored under the identifier id.  eventCategory
\* is nullable; a value that is no EventCategory violates the foreign key
\* constraint of the column.
SaveEventType(op, n, id, row) ==
    IF ~ References(row.eventCategory, categories, TRUE)
    THEN Reject(op, n, id, "IntegrityError", "foreign key")
    ELSE /\ types' = WithRow(types, id, row)
         /\ Accept(op, n, id)
         /\ UNCHANGED <<users, perms, categories, clubs, events, registrations,
                        details, teams, winners, sponsors, brochures, nodb>>

CreateEventType(cat) ==
    /\ SaveEventType("CreateEventType", 0, NewId, [eventCategory |-> cat])
    /\ sequence' = Append(sequence, "types")
    /\ UNCHANGED <<userSequence, inflight>>

UpdateEventType(t, cat) ==
    /\ t \in Issued("types")
    /\ IF t \in DOMAIN types
       THEN SaveEventType("UpdateEventType", 0, t, [eventCategory |-> cat])
            /\ UNCHANGED inflight
       ELSE Missed("UpdateEventType", "types", t, [eventCategory |-> cat])
    /\ UNCHANGED ids

\* No unique constraint: the same participant may register twice for an event.
SaveRegistration(op, n, id, row) ==
    IF \/ ~ References(row.registered_event, DOMAIN events, FALSE)
       \/ ~ References(row.participant, users, FALSE)
    THEN Reject(op, n, id, "IntegrityError", "foreign key")
    ELSE /\ registrations' = WithRow(registrations, id, row)
         /\ Accept(op, n, id)
         /\ UNCHANGED <<users, perms, categories, types, clubs, events, details,
                        teams, winners, sponsors, brochures, nodb>>

RegistrationRow(e, u) == [registered_event |-> e, participant |-> u]

CreateRegistration(e, u) ==
    /\ SaveRegistration("CreateRegistration", 0, NewId, RegistrationRow(e, u))
    /\ sequence' = Append(sequence, "registrations")
    /\ UNCHANGED <<userSequence, inflight>>

UpdateRegistration(r, e, u) ==
    /\ r \in Issued("registrations")
    /\ IF r \in DOMAIN registrations
       THEN SaveRegistration("UpdateRegistration", 0, r, RegistrationRow(e, u))
            /\ UNCHANGED inflight
       ELSE Missed("UpdateRegistration", "registrations", r,
                   RegistrationRow(e, u))
    /\ UNCHANGED ids

\* OneToOneField: the column is unique; NULL values do not collide.
OneToOne(f, col, v, self) ==
    v = NULL \/ \A x \in DOMAIN f \ {self} : f[x][col] # v

DetailWinner_user_unique(v, self) == OneToOne(details, "user", v, self)

\* The column as a ForeignKey would declare it: not a unique one.
Winners_eventName_ForeignKey(v, self) == TRUE

Winners_eventName_unique(v, self) == OneToOne(winners, "eventName", v, self)

Winners_firstWinner_unique(v, self) == OneToOne(winners, "firstWinner", v, self)

Winners_secondWinner_unique(v, self) == OneToOne(winners, "secondWinner", v, self)

Winners_thirdWinner_unique(v, self) == OneToOne(winners, "thirdWinner", v, self)

\* A user that is no row cannot be the user of another DetailWinner, so a
\* row violates at most one of the two constraints.
SaveDetailWinner(op, n, id, row) ==
    IF ~ References(row.user, users, FALSE)
    THEN Reject(op, n, id, "IntegrityError", "foreign key")
    ELSE IF ~ DetailWinner_user_unique(row.user, id)
    THEN Reject(op, n, id, "IntegrityError", "user")
    ELSE /\ details' = WithRow(details, id, row)
         /\ Accept(op, n, id)
         /\ UNCHANGED <<users, perms, categories, types, clubs, events,
                        registrations, teams, winners, sponsors, brochures,
                        nodb>>

CreateDetailWinner(u) ==
    /\ SaveDetailWinner("CreateDetailWinner", 0, NewId, [user |-> u])
    /\ sequence' = Append(sequence, "details")
    /\ UNCHANGED <<userSequence, inflight>>

UpdateDetailWinner(d, u) ==
    /\ d \in Issued("details")
    /\ IF d \in DOMAIN details
       THEN SaveDetailWinner("UpdateDetailWinner", 0, d, [user |-> u])
            /\ UNCHANGED inflight
       ELSE Missed("UpdateDetailWinner", "details", d, [user |-> u])
    /\ UNCHANGED ids

\* The row of a team is stored; the rows of its members are not written by
\* the save.
SaveTeamWinner(op, n, t) ==
    /\ teams' = IF t \in DOMAIN teams THEN teams
                ELSE WithRow(teams, t, [members |-> {}])
    /\ Accept(op, n, t)
    /\ UNCHANGED <<users, perms, categories, types, clubs, events,
                   registrations, details, winners, sponsors, brochures, nodb>>

\* A team is saved first; its members are added to the saved team.
CreateTeamWinner ==
    /\ SaveTeamWinner("CreateTeamWinner", 0, NewId)
    /\ sequence' = Append(sequence, "teams")
    /\ UNCHANGED <<userSequence, inflight>>

\* team.save() of a team that a request holds.
UpdateTeamWinner(t) ==
    /\ t \in Issued("teams")
    /\ IF t \in DOMAIN teams
       THEN SaveTeamWinner("UpdateTeamWinner", 0, t) /\ UNCHANGED inflight
       ELSE Missed("UpdateTeamWinner", "teams", t, Plain(t))
    /\ UNCHANGED ids

\* team.members.add(d) up to its INSERT: the SELECT of the rows of the
\* members table that have the team t and the DetailWinner d.  If there is
\* one, nothing is left to insert.
AddMember(t, d) ==
    /\ t \in Issued("teams")
    /\ d \in Issued("details")
    /\ IF t \in DOMAIN teams /\ d \in teams[t].members
       THEN /\ Accept("AddMember", 0, t)
            /\ UNCHANGED <<dbvars, now, inflight, upload, report>>
       ELSE /\ inflight' = inflight \cup
                 {Request(NewRequest, "AddMember", "teams", t, "add",
                          <<[member |-> d]>>, <<>>, NoRows)}
            /\ result' = [Outcome("AddMember", t, "selected") EXCEPT
                             !.request = NewRequest]
            /\ UNCHANGED <<dbvars, now, upload, report>>
    /\ UNCHANGED ids

\* The INSERT of members.add of the request p: a row of the members table,
\* which references the team and the DetailWinner and is unique for the two.
members_add(p) ==
    /\ p \in inflight
    /\ p.at = "add"
    /\ inflight' = inflight \ {p}
    /\ LET t == p.id
           d == p.instances[1].member
       IN  IF t \notin DOMAIN teams \/ d \notin DOMAIN details
           THEN Reject("AddMember", p.request, t, "IntegrityError", "foreign key")
           ELSE IF d \in teams[t].members
           THEN Reject("AddMember", p.request, t, "IntegrityError", "unique")
           ELSE /\ teams' = [teams EXCEPT ![t].members = @ \cup {d}]
                /\ Accept("AddMember", p.request, t)
                /\ UNCHANGED <<users, perms, categories, types, clubs, events,
                               registrations, details, winners, sponsors,
                               brochures, nodb>>
    /\ UNCHANGED ids

\* team.members.remove(d): the DELETE of the rows of the members table that
\* have t and d.
RemoveMember(t, d) ==
    /\ t \in Issued("teams")
    /\ d \in Issued("details")
    /\ teams' = IF t \in DOMAIN teams
                THEN [teams EXCEPT ![t].members = @ \ {d}] ELSE teams
    /\ Accept("RemoveMember", 0, t)
    /\ UNCHANGED <<users, perms, categories, types, clubs, events,
                   registrations, details, winners, sponsors, brochures, ids,
                   nodb, inflight>>

\* The foreign keys of a Winners row reference rows that exist.
WinnersForeignKeys(r) ==
    /\ References(r.eventName, DOMAIN events, FALSE)
    /\ References(r.firstWinner, DOMAIN teams, FALSE)
    /\ References(r.secondWinner, DOMAIN teams, TRUE)
    /\ References(r.thirdWinner, DOMAIN teams, TRUE)

\* The constraints that refuse the row r as the row of the instance self.  A
\* row that violates several is refused with the error of one of them.
WinnersViolation(r, self) ==
    (IF ~ WinnersForeignKeys(r) THEN {"foreign key"} ELSE {})
    \cup (IF ~ Winners_eventName_unique(r.eventName, self)
          THEN {"eventName"} ELSE {})
    \cup (IF ~ Winners_firstWinner_unique(r.firstWinner, self)
          THEN {"firstWinner"} ELSE {})
    \cup (IF ~ Winners_secondWinner_unique(r.secondWinner, self)
          THEN {"secondWinner"} ELSE {})
    \cup (IF ~ Winners_thirdWinner_unique(r.thirdWinner, self)
          THEN {"thirdWinner"} ELSE {})

\* The result of a save of a Winners row tells the row (data).
SaveWinners(op, n, id, r) ==
    IF WinnersViolation(r, id) # {}
    THEN /\ \E key \in WinnersViolation(r, id) :
              result' = [Outcome(op, id, "IntegrityError") EXCEPT
                            !.request = n, !.key = key, !.data = r]
         /\ UNCHANGED <<dbvars, now, upload, report>>
    ELSE /\ winners' = WithRow(winners, id, r)
         /\ result' = [Outcome(op, id, "ok") EXCEPT !.request = n, !.data = r]
         /\ UNCHANGED <<users, perms, categories, types, clubs, events,
                        registrations, details, teams, sponsors, brochures,
                        nodb>>

CreateWinners(e, f, s, t) ==
    /\ SaveWinners("CreateWinners", 0, NewId, WinnersRow(e, f, s, t))
    /\ sequence' = Append(sequence, "winners")
    /\ UNCHANGED <<userSequence, inflight>>

UpdateWinners(w, e, f, s, t) ==
    /\ w \in Issued("winners")
    /\ IF w \in DOMAIN winners
       THEN SaveWinners("UpdateWinners", 0, w, WinnersRow(e, f, s, t))
            /\ UNCHANGED inflight
       ELSE Missed("UpdateWinners", "winners", w, WinnersRow(e, f, s, t))
    /\ UNCHANGED ids

\* The INSERT of a save whose UPDATE matched no row: the row of the instance
\* that the request p holds is inserted under the identifier of the instance,
\* unless a row has it by now (the primary key is checked first).
Model_insert(p) ==
    /\ p \in inflight
    /\ p.at = "INSERT"
    /\ inflight' = inflight \ {p}
    /\ LET row == p.instances[1] IN
       IF p.id \in Stored(p.table)
       THEN Reject(p.op, p.request, p.id, "IntegrityError", "PRIMARY")
       ELSE CASE p.table = "users" -> SaveUser(p.op, p.request, p.id)
              [] p.table = "clubs" -> SaveClub(p.op, p.request, p.id)
              [] p.table = "categories" ->
                   SaveEventCategory(p.op, p.request, p.id)
              [] p.table = "sponsors" -> SaveSponsor(p.op, p.request, p.id)
              [] p.table = "brochures" -> SaveBrochure(p.op, p.request, p.id)
              [] p.table = "types" -> SaveEventType(p.op, p.request, p.id, row)
              [] p.table = "registrations" ->
                   SaveRegistration(p.op, p.request, p.id, row)
              [] p.table = "details" ->
                   SaveDetailWinner(p.op, p.request, p.id, row)
              [] p.table = "teams" -> SaveTeamWinner(p.op, p.request, p.id)
              [] p.table = "winners" -> SaveWinners(p.op, p.request, p.id, row)
    /\ UNCHANGED ids
----------------------------------------------------------------------------
(* Event: BaseModel.save, the validators of the fields and the history *)

\* The values a request gives the fields of an Event.
Names == {"a", "b"}

MinTeamSizes == {-1, 0, 1}

MaxTeamSizes == {-1, 0}

EventData == [name : Names, minTeam : MinTeamSizes, maxTeam : MaxTeamSizes]

\* Event(**data): an instance that was never saved.
NewEvent(ty, cl, data) ==
    [id |-> NULL, eventType |-> ty, association |-> cl, name |-> data.name,
     minTeam |-> data.minTeam, maxTeam |-> data.maxTeam,
     record_created |-> NULL, record_modified |-> NULL]

\* The instance of a saved row with the fields of the request set.
Changed(inst, ty, cl, data) ==
    [inst EXCEPT !.eventType = ty, !.association = cl, !.name = data.name,
                 !.minTeam = data.minTeam, !.maxTeam = data.maxTeam]

\* The field values of an instance, as a request gives them.
DataOf(inst) ==
    [name |-> inst.name, minTeam |-> inst.minTeam, maxTeam |-> inst.maxTeam]

\* timezone.now() at any time since the clock showed c: the values it may
\* return.  The clock does not go back; two readings may be the same.
timezone_now(c) == c..MaxClock

\* The clock after a reading r that was taken since it showed c.
Later(c, r) == IF r > c THEN r ELSE c

\* MinValueValidator(limit)(value) accepts the value.
MinValueValidator(limit, value) == value >= limit

\* A field declared without validators.
NoValidators(value) == TRUE

Event_minTeam_validators(value) == MinValueValidator(0, value)

Event_maxTeam_validators(value) == MinValueValidator(0, value)

\* The validators that the fields of Event declare accept the data.
Event_clean_fields(data) ==
    /\ Event_minTeam_validators(data.minTeam)
    /\ Event_maxTeam_validators(data.maxTeam)

\* A save that stamps the creation time whether or not the instance has an id.
BaseModel_save_always(inst, r1, r2) ==
    [inst EXCEPT !.record_created = r1, !.record_modified = r2]

\* BaseModel.save before it calls Model.save, where r1 and r2 are the values
\* of the first and the second timezone.now().
BaseModel_save(inst, r1, r2) ==
    LET i1 == IF inst.id = NULL THEN [inst EXCEPT !.record_created = r1] ELSE inst
    IN  [i1 EXCEPT !.record_modified = r2]

record_created_auto_now_add == TRUE

record_modified_auto_now == TRUE

\* DateTimeField.pre_save of the two audit fields, as Model.save calls it for
\* an insert (add) or an update: auto_now_add stamps on insert, auto_now
\* always; r3 and r4 are the values of their timezone.now().
pre_save(inst, add, r3, r4) ==
    LET i1 == IF record_created_auto_now_add /\ add
              THEN [inst EXCEPT !.record_created = r3] ELSE inst
    IN  IF record_modified_auto_now
        THEN [i1 EXCEPT !.record_modified = r4] ELSE i1

\* The snapshot of an instance that HistoricalRecords stores: every field of
\* the instance, the kind of change ("+", "~", "-") and its time.
Snapshot(inst, type, date) ==
    [id |-> inst.id, eventType |-> inst.eventType,
     association |-> inst.association, name |-> inst.name,
     minTeam |-> inst.minTeam, maxTeam |-> inst.maxTeam,
     record_created |-> inst.record_created,
     record_modified |-> inst.record_modified, history_type |-> type,
     history_date |-> date]

\* A history that keeps only the last snapshot of each instance.
HistoricalRecords_overwrite(h, snap) ==
    Append(SelectSeq(h, LAMBDA x : x.id # snap.id), snap)

\* history = HistoricalRecords(): every change adds a row to the history.
HistoricalRecords(h, snap) == Append(h, snap)

\* The foreign keys of the row of an Event reference rows that exist.
EventForeignKeys(row) ==
    /\ References(row.eventType, DOMAIN types, TRUE)
    /\ References(row.association, clubs, TRUE)

\* Event(eventType=ty, association=cl, **data): a request makes an instance
\* that it will save.
CreateEvent(ty, cl, data) ==
    /\ inflight' = inflight \cup
         {Request(NewRequest, "CreateEvent", "events", NULL, "save",
                  <<NewEvent(ty, cl, data)>>, <<>>, NoRows)}
    /\ result' = [Outcome("CreateEvent", NULL, "loaded") EXCEPT
                     !.request = NewRequest, !.data = data]
    /\ UNCHANGED <<dbvars, now, ids, upload, report>>

\* Event.objects.get(id=e), and the fields of the instance are set: a request
\* loads the row of e and changes the instance that it will save.
UpdateEvent(e, ty, cl, data) ==
    /\ e \in DOMAIN events
    /\ inflight' = inflight \cup
         {Request(NewRequest, "UpdateEvent", "events", e, "save",
                  <<Changed(events[e], ty, cl, data)>>, <<>>, NoRows)}
    /\ result' = [Outcome("UpdateEvent", e, "loaded") EXCEPT
                     !.request = NewRequest, !.data = data]
    /\ UNCHANGED <<dbvars, now, ids, upload, report>>

\* instance.save() of the request p up to its first statement: BaseModel.save
\* stamps the instance, Model.save calls pre_save of the audit fields, and
\* the row is inserted if the instance has no identifier, updated if it has
\* one.  The insert draws the identifier.  An UPDATE that matches no row
\* leaves the INSERT to the next step of the request.  r1 to r4 are the
\* readings of the clock.  The post_save signal is sent after the transaction.
Event_save(p) ==
    /\ p \in inflight
    /\ p.at = "save"
    /\ \E r1 \in timezone_now(p.clock) : \E r2 \in timezone_now(r1) :
       \E r3 \in timezone_now(r2) : \E r4 \in timezone_now(r3) :
          LET inst == p.instances[1]
              add == inst.id = NULL
              s1 == BaseModel_save(inst, r1, r2)
              s2 == pre_save(s1, add, r3, r4)
              id == IF add THEN NewId ELSE inst.id
              row == [s2 EXCEPT !.id = id]
              t == Later(now, r4)
          IN  /\ now' = t
              /\ sequence' = IF add THEN Append(sequence, "events") ELSE sequence
              /\ UNCHANGED userSequence
              /\ IF ~ add /\ id \notin DOMAIN events
                 THEN /\ Continue(p, [p EXCEPT !.at = "insert",
                                               !.instances = <<s2>>,
                                               !.clock = t])
                      /\ result' = [Outcome(p.op, id, "missed") EXCEPT
                                       !.request = p.request,
                                       !.data = DataOf(inst)]
                      /\ UNCHANGED <<dbvars, upload, report>>
                 ELSE IF ~ EventForeignKeys(row)
                 THEN Fail(p, "IntegrityError", "foreign key")
                 ELSE /\ events' = WithRow(events, id, row)
                      /\ Continue(p, [p EXCEPT !.at = "post_save", !.id = id,
                                               !.instances = <<row>>,
                                               !.created = add, !.clock = t,
                                               !.seen = Len(history)])
                      /\ result' = [Outcome(p.op, id, "saved") EXCEPT
                                       !.request = p.request,
                                       !.data = DataOf(inst)]
                      /\ UNCHANGED <<users, perms, categories, types, clubs,
                                     registrations, details, teams, winners,
                                     sponsors, brochures, history, upload,
                                     report>>

\* The INSERT of a save whose UPDATE matched no row: pre_save stamps the
\* instance as a new one (r3, r4) and the row is inserted under the
\* identifier of the instance, unless a row has it by now.
Event_insert(p) ==
    /\ p \in inflight
    /\ p.at = "insert"
    /\ \E r3 \in timezone_now(p.clock) : \E r4 \in timezone_now(r3) :
          LET inst == p.instances[1]
              row == pre_save(inst, TRUE, r3, r4)
              t == Later(now, r4)
          IN  /\ now' = t
              /\ UNCHANGED ids
              /\ IF inst.id \in DOMAIN events
                 THEN Fail(p, "IntegrityError", "PRIMARY")
                 ELSE IF ~ EventForeignKeys(row)
                 THEN Fail(p, "IntegrityError", "foreign key")
                 ELSE /\ events' = WithRow(events, inst.id, row)
                      /\ Continue(p, [p EXCEPT !.at = "post_save",
                                               !.instances = <<row>>,
                                               !.created = TRUE, !.clock = t,
                                               !.seen = Len(history)])
                      /\ result' = [Outcome(p.op, inst.id, "saved") EXCEPT
                                       !.request = p.request,
                                       !.data = DataOf(inst)]
                      /\ UNCHANGED <<users, perms, categories, types, clubs,
                                     registrations, details, teams, winners,
                                     sponsors, brochures, history, upload,
                                     report>>

\* The post_save signal of a save of an Event: simple_history reads the clock
\* and inserts the snapshot of the instance that was saved, "+" for a row
\* that the save inserted and "~" for a row it updated.
post_save(p) ==
    /\ p \in inflight
    /\ p.at = "post_save"
    /\ \E date \in timezone_now(p.clock) :
         /\ history' = HistoricalRecords(history,
                Snapshot(p.instances[1], IF p.created THEN "+" ELSE "~", date))
         /\ now' = Later(now, date)
    /\ inflight' = inflight \ {p}
    /\ result' = [Outcome(p.op, p.id, "ok") EXCEPT
                     !.request = p.request, !.data = DataOf(p.instances[1])]
    /\ UNCHANGED <<users, perms, categories, types, clubs, events,
                   registrations, details, teams, winners, sponsors, brochures,
                   ids, upload, report>>

----------------------------------------------------------------------------
(* Model.delete: Collector.collect, then Collector.delete in a transaction *)

\* The instances of the events in S, by increasing identifier.
RECURSIVE Instances(_)
Instances(S) ==
    IF S = {} THEN <<>>
    ELSE LET m == CHOOSE x \in S : \A y \in S : x <= y
         IN  <<events[m]>> \o Instances(S \ {m})

\* A request loads the instance of a row and calls instance.delete(): the
\* collector starts with the instance and the relations of its model.
StartDelete(op, table, id) ==
    /\ inflight' = inflight \cup
         {Request(NewRequest, op, table, id, "collect",
                  IF table = "events" THEN <<events[id]>> ELSE <<>>,
                  Relations(table), Seed(table, id))}
    /\ result' = [Outcome(op, id, "loaded") EXCEPT
                     !.request = NewRequest, !.rows = Seed(table, id)]
    /\ UNCHANGED <<dbvars, now, ids, upload, report>>

DeleteUser(u) == u \in users /\ StartDelete("DeleteUser", "users", u)

DeleteClub(c) == c \in clubs /\ StartDelete("DeleteClub", "clubs", c)

DeleteEventCategory(c) ==
    c \in categories /\ StartDelete("DeleteEventCategory", "categories", c)

DeleteEventType(t) ==
    t \in DOMAIN types /\ StartDelete("DeleteEventType", "types", t)

DeleteEvent(e) == e \in DOMAIN events /\ StartDelete("DeleteEvent", "events", e)

DeleteRegistration(r) ==
    r \in DOMAIN registrations
    /\ StartDelete("DeleteRegistration", "registrations", r)

DeleteDetailWinner(d) ==
    d \in DOMAIN details /\ StartDelete("DeleteDetailWinner", "details", d)

DeleteTeamWinner(t) ==
    t \in DOMAIN teams /\ StartDelete("DeleteTeamWinner", "teams", t)

DeleteWinners(w) ==
    w \in DOMAIN winners /\ StartDelete("DeleteWinners", "winners", w)

DeleteSponsor(x) == x \in sponsors /\ StartDelete("DeleteSponsor", "sponsors", x)

DeleteBrochure(b) ==
    b \in brochures /\ StartDelete("DeleteBrochure", "brochures", b)

\* One SELECT of Collector.collect of the request p: the rows that reference,
\* through the next relation, the rows collected of the referenced model.
\* models.PROTECT raises ProtectedError if there is such a row;
\* models.CASCADE collects the rows, and their own relations are read next;
\* models.SET_NULL collects the column of the rows to set to NULL.
Collector_collect(p) ==
    /\ p \in inflight
    /\ p.at = "collect"
    /\ p.todo # <<>>
    /\ LET fk == Head(p.todo)
           found == Refs(fk, p.rows[fk.parent])
           new == found \ p.rows[fk.child]
           q == [p EXCEPT
                   !.todo = (IF fk.rule = "CASCADE" /\ new # {}
                             THEN Relations(fk.child) ELSE <<>>) \o Tail(@),
                   !.rows = IF fk.rule = "CASCADE"
                            THEN [@ EXCEPT ![fk.child] = @ \cup found] ELSE @,
                   !.nulls = IF fk.rule = "SET_NULL"
                             THEN @ \cup {<<fk.child, fk.col, x>> : x \in found}
                             ELSE @,
                   !.instances = IF fk.rule = "CASCADE" /\ fk.child = "events"
                                 THEN @ \o Instances(new) ELSE @,
                   !.clock = now]
       IN  IF fk.rule = "PROTECT" /\ found # {}
           THEN Fail(p, "ProtectedError", fk.col)
           ELSE /\ Continue(p, q)
                /\ result' = [Outcome(p.op, p.id, "collecting") EXCEPT
                                 !.request = p.request, !.key = fk.col,
                                 !.rows = q.rows]
                /\ UNCHANGED <<dbvars, upload, report>>
    /\ UNCHANGED <<now, ids>>

\* UPDATE ... SET col = NULL of the rows that the delete p collected for it.
SetNull(p, name, x, row, col) ==
    IF <<name, col, x>> \in p.nulls THEN [row EXCEPT ![col] = NULL] ELSE row

\* The "-" snapshots that the post_delete signals of the events give the
\* history, all at the time date.
RECURSIVE Deleted(_, _, _)
Deleted(h, insts, date) ==
    IF insts = <<>> THEN h
    ELSE Deleted(HistoricalRecords(h, Snapshot(Head(insts), "-", date)),
                 Tail(insts), date)

\* Collector.delete of the request p, once its collect has read every
\* relation; one transaction: the columns collected for SET_NULL are updated,
\* the collected rows are deleted by identifier (the rows of the many-to-many
\* tables by the row they belong to), and post_delete is sent for every
\* collected Event, whether or not its row was still there.  A row that still
\* references a deleted row makes the database refuse the delete, and nothing
\* is changed.
Collector_delete(p) ==
    /\ p \in inflight
    /\ p.at = "collect"
    /\ p.todo = <<>>
    /\ UNCHANGED ids
    /\ LET us == users \ p.rows["users"]
           pm == {q \in perms : q[1] \in us}
           cats == categories \ p.rows["categories"]
           tys == [x \in DOMAIN types \ p.rows["types"] |->
                     SetNull(p, "types", x, types[x], "eventCategory")]
           cls == clubs \ p.rows["clubs"]
           evs == [x \in DOMAIN events \ p.rows["events"] |->
                     SetNull(p, "events", x,
                         SetNull(p, "events", x, events[x], "eventType"),
                         "association")]
           regs == [x \in DOMAIN registrations \ p.rows["registrations"] |->
                      SetNull(p, "registrations", x,
                          SetNull(p, "registrations", x, registrations[x],
                                  "registered_event"),
                          "participant")]
           dets == [x \in DOMAIN details \ p.rows["details"] |->
                      SetNull(p, "details", x, details[x], "user")]
           tms == [x \in DOMAIN teams \ p.rows["teams"] |->
                     [members |-> teams[x].members \ p.rows["details"]]]
           wins == [x \in DOMAIN winners \ p.rows["winners"] |->
                      SetNull(p, "winners", x,
                        SetNull(p, "winners", x,
                          SetNull(p, "winners", x,
                            SetNull(p, "winners", x, winners[x], "eventName"),
                            "firstWinner"),
                          "secondWinner"),
                        "thirdWinner")]
           spns == sponsors \ p.rows["sponsors"]
           brs == brochures \ p.rows["brochures"]
           count == Cardinality(users \ us) + Cardinality(categories \ cats)
                    + Cardinality(DOMAIN types \ DOMAIN tys)
                    + Cardinality(clubs \ cls)
                    + Cardinality(DOMAIN events \ DOMAIN evs)
                    + Cardinality(DOMAIN registrations \ DOMAIN regs)
                    + Cardinality(DOMAIN details \ DOMAIN dets)
                    + Cardinality(DOMAIN teams \ DOMAIN tms)
                    + Cardinality(DOMAIN winners \ DOMAIN wins)
                    + Cardinality(sponsors \ spns)
                    + Cardinality(brochures \ brs)
       IN  IF ~ ForeignKeysHold(us, pm, cats, tys, cls, evs, regs, dets, tms, wins)
           THEN Fail(p, "IntegrityError", "foreign key") /\ UNCHANGED now
           ELSE /\ users' = us
                /\ perms' = pm
                /\ categories' = cats
                /\ types' = tys
                /\ clubs' = cls
                /\ events' = evs
                /\ registrations' = regs
                /\ details' = dets
                /\ teams' = tms
                /\ winners' = wins
                /\ sponsors' = spns
                /\ brochures' = brs
                /\ \E date \in (IF p.instances = <<>> THEN {now}
                                ELSE timezone_now(p.clock)) :
                     /\ history' = Deleted(history, p.instances, date)
                     /\ now' = Later(now, date)
                /\ inflight' = inflight \ {p}
                /\ result' = [Outcome(p.op, p.id, "ok") EXCEPT
                                 !.request = p.request, !.deleted = count]
                /\ UNCHANGED <<upload, report>>
----------------------------------------------------------------------------
(* The Event endpoint of the API: the fields are validated before the save *)

\* A request that is answered with an error and stores nothing.
Refuse(op, id, status, data) ==
    /\ result' = [Outcome(op, id, status) EXCEPT !.data = data]
    /\ UNCHANGED <<dbvars, now, ids, inflight, upload, report>>

\* POST /api/event: the fields are validated, then the instance is made and
\* saved.
ApiCreateEvent(data) ==
    IF ~ Event_clean_fields(data)
    THEN Refuse("CreateEvent", NULL, "ValidationError", data)
    ELSE CreateEvent(NULL, NULL, data)

\* PUT or PATCH /api/event/<id>: the row is loaded, the fields are validated
\* and set, and the instance is saved.
ApiUpdateEvent(id, data) ==
    IF id \notin DOMAIN events
    THEN Refuse("UpdateEvent", id, "NotFound", data)
    ELSE IF ~ Event_clean_fields(data)
    THEN Refuse("UpdateEvent", id, "ValidationError", data)
    ELSE UpdateEvent(id, events[id].eventType, events[id].association, data)

\* DELETE /api/event/<id>
ApiDeleteEvent(id) ==
    IF id \notin DOMAIN events
    THEN Refuse("DeleteEvent", id, "NotFound", <<>>)
    ELSE DeleteEvent(id)

----------------------------------------------------------------------------
(* path_and_rename: a string is the sequence of its characters *)

PanCard == <<"P", "a", "n", "C", "a", "r", "d">>

\* The names of uploaded files (not empty, and without a directory: an
\* uploaded file keeps only the base name), user names and uuid4().hex values.
FilenameChars == {"a", "b", "."}

Filenames == UNION {[1..n -> FilenameChars] : n \in 1..MaxLen}

Usernames == {<<"u">>, <<"a", ".", "b">>}

Tokens == {<<"0", "f">>, <<"9", "c">>}

Last(s) == s[Len(s)]

\* str.split(sep): the pieces of s between the occurrences of sep.
RECURSIVE Split(_, _)
Split(s, sep) ==
    LET at == {i \in 1..Len(s) : s[i] = sep}
    IN  IF at = {} THEN <<s>>
        ELSE LET k == CHOOSE i \in at : \A j \in at : i <= j
             IN  <<SubSeq(s, 1, k - 1)>> \o Split(SubSeq(s, k + 1, Len(s)), sep)

\* An extension taken from the front of the name.
FileExtension_first(filename) == Head(Split(filename, "."))

\* ext = filename.split('.')[-1]
FileExtension(filename) == Last(Split(filename, "."))

\* '{}.{}'.format(stem, ext)
Format(stem, ext) == stem \o <<".">> \o ext

\* os.path.join(a, b)
os_path_join(a, b) ==
    IF b # <<>> /\ Head(b) = "/" THEN b
    ELSE IF a = <<>> \/ Last(a) = "/" THEN a \o b
    ELSE a \o <<"/">> \o b

\* path_and_rename(instance, filename), where uuid is the value of uuid4().hex
\* if the function draws one.
path_and_rename(instance, filename, uuid) ==
    LET upload_to == PanCard
        ext == FileExtension(filename)
        renamed == IF instance.pk # NULL
                   THEN Format(instance.username, ext)
                   ELSE Format(uuid, ext)
    IN  os_path_join(upload_to, renamed)

\* The DetailWinner instance whose panCardPhoto is uploaded, before any call.
Instance(pk, username) ==
    [pk |-> pk, username |-> username, filename |-> <<>>, uuid |-> <<>>,
     path |-> <<>>]

NoUpload == Instance(NULL, <<>>)

\* A file is uploaded as the panCardPhoto of the instance: the storage asks
\* upload_to for the name.  uuid4 is drawn only for an instance without pk.
Upload(filename, uuid) ==
    /\ upload.pk = NULL => uuid \in Tokens
    /\ upload.pk # NULL => uuid = <<>>
    /\ upload' = [upload EXCEPT
                    !.filename = filename,
                    !.uuid = uuid,
                    !.path = path_and_rename(upload, filename, uuid)]
    /\ UNCHANGED <<dbvars, now, ids, inflight, result, report>>


----------------------------------------------------------------------------
(* The import of registrations *)

IMPORT_EXPORT_NO_TRANSACTIONS == FALSE

IMPORT_EXPORT_USE_TRANSACTIONS == TRUE

IMPORT_EXPORT_IMPORT_PERMISSION_CODE == "allowed_import"

\* Registration.Meta.permissions: the code names of the permissions.
Registration_permissions == {"allowed_import"}

\* The identifiers that the rows of an imported dataset name.
Named == {1, 2}

RegistrationRows == [registered_event : Named, participant : Named]

Batches == UNION {[1..n -> RegistrationRows] : n \in 1..MaxBatch}

\* The permission is given to a user.
GrantImport(u, code) ==
    /\ u \in users
    /\ code \in Registration_permissions
    /\ <<u, code>> \notin perms
    /\ perms' = perms \cup {<<u, code>>}
    /\ result' = Outcome("GrantImport", u, "ok")
    /\ UNCHANGED <<users, categories, types, clubs, events, registrations,
                   details, teams, winners, sponsors, brochures, ids, nodb,
                   inflight>>

\* The caller holds the permission that the import asks for.
has_import_permission(caller) ==
    <<caller, IMPORT_EXPORT_IMPORT_PERMISSION_CODE>> \in perms

\* A row of the dataset can be saved: both its references exist.
RowValid(row) ==
    /\ References(row.registered_event, DOMAIN events, FALSE)
    /\ References(row.participant, users, FALSE)

\* The table once the rows are inserted, each under the identifier that its
\* insert draws from the sequence.
Inserted(f, rows) ==
    [x \in DOMAIN f \cup {NewId + i - 1 : i \in 1..Len(rows)} |->
        IF x \in DOMAIN f THEN f[x] ELSE rows[x - NewId + 1]]

\* The sequence once n registrations have drawn their identifiers.
RECURSIVE Drawn(_, _)
Drawn(seq, n) ==
    IF n = 0 THEN seq ELSE Drawn(Append(seq, "registrations"), n - 1)

\* The import of a dataset of registrations by a caller: refused without the
\* permission; otherwise every row that can be saved is saved, and with
\* transactions in use the whole import is rolled back if a row could not be.
\* The identifiers that the inserts drew are not given back by a rollback.
ImportRegistrations(caller, batch) ==
    /\ caller \in users
    /\ IF ~ has_import_permission(caller)
       THEN /\ result' = Outcome("ImportRegistrations", caller, "PermissionDenied")
            /\ report' = [batch |-> batch, errors |-> 0, saved |-> 0]
            /\ UNCHANGED <<registrations, sequence>>
       ELSE LET good == SelectSeq(batch, RowValid)
                errors == Len(batch) - Len(good)
                rollback == IMPORT_EXPORT_USE_TRANSACTIONS /\ errors > 0
            IN  /\ registrations' =
                     IF rollback THEN registrations
                     ELSE Inserted(registrations, good)
                /\ sequence' = Drawn(sequence, Len(good))
                /\ result' = Outcome("ImportRegistrations", caller,
                                     IF errors > 0 THEN "RowError" ELSE "ok")
                /\ report' = [batch |-> batch, errors |-> errors,
                              saved |-> IF rollback THEN 0 ELSE Len(good)]
    /\ UNCHANGED <<users, perms, categories, types, clubs, events, details,
                   teams, winners, sponsors, brochures, history, now,
                   userSequence, inflight, upload>>


----------------------------------------------------------------------------
(* The database under any sequence of its operations *)

NoResult == Outcome("none", NULL, "ok")

\* The database is empty, no identifier is drawn, the clock shows 0 and no
\* request is under way.
InitDb ==
    /\ users = {}
    /\ perms = {}
    /\ categories = {}
    /\ types = <<>>
    /\ clubs = {}
    /\ events = <<>>
    /\ registrations = <<>>
    /\ details = <<>>
    /\ teams = <<>>
    /\ winners = <<>>
    /\ sponsors = {}
    /\ brochures = {}
    /\ history = <<>>
    /\ now = 0
    /\ sequence = <<>>
    /\ userSequence = 0
    /\ inflight = {}
    /\ result = NoResult
    /\ report = <<>>

Init == InitDb /\ upload = NoUpload

\* A DetailWinner, saved (with an identifier) or not, of a user with a name.
InitInstance ==
    /\ InitDb
    /\ upload \in {Instance(pk, username) : pk \in {NULL, 1, 2},
                                            username \in Usernames}

\* The requests under way that have an INSERT left to send, of a save whose
\* UPDATE matched no row or of members.add.
Inserts(fl) == {p \in fl : p.at \in {"INSERT", "add"}}

\* Fewer than k requests that save an Event or delete are under way.
Starting(k) == Cardinality(inflight \ Inserts(inflight)) < k

\* After the step, at most k requests have an INSERT left to send.
Inserting(k) == Cardinality(Inserts(inflight')) <= k

\* The history holds fewer than k snapshots, the ones to come counted.
Snapshots(k) ==
    Len(history) + Cardinality(inflight \ Inserts(inflight)) < k

\* Fewer than k identifiers of the sequence of BaseModel are drawn, the ones
\* counted that the requests under way will draw.
Drawing(k) ==
    Len(sequence)
    + Cardinality({p \in inflight : p.at = "save" /\ p.instances[1].id = NULL})
    < k

\* Fewer than k identifiers are drawn for instances of the model, the ones
\* counted that the requests under way will draw.
Few(table, k) ==
    Cardinality(Issued(table))
    + Cardinality({p \in inflight : p.table = table /\ p.at = "save"
                                    /\ p.instances[1].id = NULL})
    < k

\* The values of a nullable reference to a model.
OrNull(table) == {NULL} \cup Issued(table)

\* The field values of the events of the specifications that are about the
\* references between the rows: the defaults of minTeam and maxTeam.
AnEvent == [name |-> "a", minTeam |-> 0, maxTeam |-> 0]

\* The field values of the events of the specifications of the saves.
SavedData == [name : Names, minTeam : {0}, maxTeam : {0}]

\* Every operation on every table, within MaxIds identifiers, MaxUsers users,
\* MaxSnapshots snapshots and MaxInFlight requests of a kind under way, up to
\* the time MaxTime.  A reference of a saved instance is to an instance of the
\* referenced model, stored or not.
Next ==
    \/ userSequence < MaxUsers /\ CreateUser
    \/ Drawing(MaxIds) /\ CreateClub
    \/ Drawing(MaxIds) /\ CreateEventCategory
    \/ \E c \in OrNull("categories") : Drawing(MaxIds) /\ CreateEventType(c)
    \/ \E ty \in OrNull("types"), cl \in OrNull("clubs") :
          /\ Drawing(MaxIds)
          /\ Starting(MaxInFlight) /\ Snapshots(MaxSnapshots)
          /\ CreateEvent(ty, cl, AnEvent)
    \/ \E e \in Issued("events"), u \in IssuedUsers :
          Drawing(MaxIds) /\ CreateRegistration(e, u)
    \/ \E u \in IssuedUsers : Drawing(MaxIds) /\ CreateDetailWinner(u)
    \/ Drawing(MaxIds) /\ CreateTeamWinner
    \/ \E e \in Issued("events"), f \in Issued("teams"),
          s \in OrNull("teams"), t \in OrNull("teams") :
          Drawing(MaxIds) /\ CreateWinners(e, f, s, t)
    \/ Drawing(MaxIds) /\ CreateSponsor
    \/ Drawing(MaxIds) /\ CreateBrochure
    \/ \E u \in IssuedUsers : UpdateUser(u) /\ Inserting(MaxInFlight)
    \/ \E c \in Issued("clubs") : UpdateClub(c) /\ Inserting(MaxInFlight)
    \/ \E c \in Issued("categories") :
          UpdateEventCategory(c) /\ Inserting(MaxInFlight)
    \/ \E t \in Issued("types"), c \in OrNull("categories") :
          UpdateEventType(t, c) /\ Inserting(MaxInFlight)
    \/ \E x \in Issued("sponsors") : UpdateSponsor(x) /\ Inserting(MaxInFlight)
    \/ \E b \in Issued("brochures") : UpdateBrochure(b) /\ Inserting(MaxInFlight)
    \/ \E e \in Issued("events"), ty \in OrNull("types"),
          cl \in OrNull("clubs") :
          /\ Starting(MaxInFlight) /\ Snapshots(MaxSnapshots)
          /\ UpdateEvent(e, ty, cl, AnEvent)
    \/ \E r \in Issued("registrations"), e \in Issued("events"),
          u \in IssuedUsers :
          UpdateRegistration(r, e, u) /\ Inserting(MaxInFlight)
    \/ \E d \in Issued("details"), u \in IssuedUsers :
          UpdateDetailWinner(d, u) /\ Inserting(MaxInFlight)
    \/ \E t \in Issued("teams") : UpdateTeamWinner(t) /\ Inserting(MaxInFlight)
    \/ \E t \in Issued("teams"), d \in Issued("details") :
          AddMember(t, d) /\ Inserting(MaxInFlight)
    \/ \E t \in Issued("teams"), d \in Issued("details") : RemoveMember(t, d)
    \/ \E w \in Issued("winners"), e \in Issued("events"),
          f \in Issued("teams"), s \in OrNull("teams"), t \in OrNull("teams") :
          UpdateWinners(w, e, f, s, t) /\ Inserting(MaxInFlight)
    \/ \E x \in sponsors : Starting(MaxInFlight) /\ DeleteSponsor(x)
    \/ \E b \in brochures : Starting(MaxInFlight) /\ DeleteBrochure(b)
    \/ \E c \in clubs : Starting(MaxInFlight) /\ DeleteClub(c)
    \/ \E c \in categories : Starting(MaxInFlight) /\ DeleteEventCategory(c)
    \/ \E t \in DOMAIN types : Starting(MaxInFlight) /\ DeleteEventType(t)
    \/ \E u \in users : Starting(MaxInFlight) /\ DeleteUser(u)
    \/ \E e \in DOMAIN events :
          /\ Starting(MaxInFlight) /\ Snapshots(MaxSnapshots)
          /\ DeleteEvent(e)
    \/ \E r \in DOMAIN registrations :
          Starting(MaxInFlight) /\ DeleteRegistration(r)
    \/ \E d \in DOMAIN details : Starting(MaxInFlight) /\ DeleteDetailWinner(d)
    \/ \E t \in DOMAIN teams : Starting(MaxInFlight) /\ DeleteTeamWinner(t)
    \/ \E w \in DOMAIN winners : Starting(MaxInFlight) /\ DeleteWinners(w)
    \/ \E p \in inflight : Event_save(p) /\ now' <= MaxTime
    \/ \E p \in inflight : Event_insert(p) /\ now' <= MaxTime
    \/ \E p \in inflight : post_save(p) /\ now' <= MaxTime
    \/ \E p \in inflight : Model_insert(p)
    \/ \E p \in inflight : members_add(p)
    \/ \E p \in inflight : Collector_collect(p)
    \/ \E p \in inflight : Collector_delete(p) /\ now' <= MaxTime

Spec == Init /\ [][Next]_vars

\* The creates and deletes of every model, within MaxIds identifiers, of
\* which MaxOfModel for one model, and MaxOwners users.
NextLifecycle ==
    \/ userSequence < MaxOwners /\ CreateUser
    \/ Drawing(MaxIds) /\ Few("clubs", MaxOfModel) /\ CreateClub
    \/ Drawing(MaxIds) /\ Few("categories", MaxOfModel) /\ CreateEventCategory
    \/ \E c \in OrNull("categories") :
          /\ Drawing(MaxIds) /\ Few("types", MaxOfModel)
          /\ CreateEventType(c)
    \/ \E ty \in OrNull("types"), cl \in OrNull("clubs") :
          /\ Drawing(MaxIds) /\ Few("events", MaxOfModel)
          /\ Starting(MaxInFlight) /\ Snapshots(MaxSnapshots)
          /\ CreateEvent(ty, cl, AnEvent)
    \/ \E e \in Issued("events"), u \in IssuedUsers :
          /\ Drawing(MaxIds) /\ Few("registrations", MaxOfModel)
          /\ CreateRegistration(e, u)
    \/ \E u \in IssuedUsers :
          /\ Drawing(MaxIds) /\ Few("details", MaxOfModel)
          /\ CreateDetailWinner(u)
    \/ Drawing(MaxIds) /\ Few("teams", MaxOfModel) /\ CreateTeamWinner
    \/ \E t \in Issued("teams"), d \in Issued("details") :
          AddMember(t, d) /\ Inserting(MaxInFlight)
    \/ \E e \in Issued("events"), f \in Issued("teams"),
          s \in OrNull("teams"), t \in OrNull("teams") :
          /\ Drawing(MaxIds) /\ Few("winners", MaxOfModel)
          /\ CreateWinners(e, f, s, t)
    \/ Drawing(MaxIds) /\ Few("sponsors", MaxOfModel) /\ CreateSponsor
    \/ Drawing(MaxIds) /\ Few("brochures", MaxOfModel) /\ CreateBrochure
    \/ \E c \in clubs : Starting(MaxInFlight) /\ DeleteClub(c)
    \/ \E c \in categories : Starting(MaxInFlight) /\ DeleteEventCategory(c)
    \/ \E t \in DOMAIN types : Starting(MaxInFlight) /\ DeleteEventType(t)
    \/ \E u \in users : Starting(MaxInFlight) /\ DeleteUser(u)
    \/ \E e \in DOMAIN events :
          /\ Starting(MaxInFlight) /\ Snapshots(MaxSnapshots)
          /\ DeleteEvent(e)
    \/ \E r \in DOMAIN registrations :
          Starting(MaxInFlight) /\ DeleteRegistration(r)
    \/ \E d \in DOMAIN details : Starting(MaxInFlight) /\ DeleteDetailWinner(d)
    \/ \E t \in DOMAIN teams : Starting(MaxInFlight) /\ DeleteTeamWinner(t)
    \/ \E w \in DOMAIN winners : Starting(MaxInFlight) /\ DeleteWinners(w)
    \/ \E p \in inflight : Event_save(p) /\ now' <= MaxTime
    \/ \E p \in inflight : post_save(p) /\ now' <= MaxTime
    \/ \E p \in inflight : members_add(p)
    \/ \E p \in inflight : Collector_collect(p)
    \/ \E p \in inflight : Collector_delete(p) /\ now' <= MaxTime

SpecLifecycle == Init /\ [][NextLifecycle]_vars

\* The operations on events, their registrations and their Winners records,
\* within MaxWinnerIds identifiers and MaxSnapshots snapshots, with
\* MaxInFlight requests that save an Event or delete and MaxSaving saves of a
\* Registration whose row is gone under way.
NextEvents ==
    \/ userSequence < MaxUsers /\ CreateUser
    \/ /\ Drawing(MaxWinnerIds)
       /\ Starting(MaxInFlight) /\ Snapshots(MaxSnapshots)
       /\ CreateEvent(NULL, NULL, AnEvent)
    \/ \E e \in Issued("events"), u \in IssuedUsers :
          Drawing(MaxWinnerIds) /\ CreateRegistration(e, u)
    \/ Drawing(MaxWinnerIds) /\ CreateTeamWinner
    \/ \E e \in Issued("events"), f \in Issued("teams") :
          Drawing(MaxWinnerIds) /\ CreateWinners(e, f, NULL, NULL)
    \/ \E r \in Issued("registrations"), e \in Issued("events"),
          u \in IssuedUsers :
          UpdateRegistration(r, e, u) /\ Inserting(MaxSaving)
    \/ \E e \in DOMAIN events :
          /\ Starting(MaxInFlight) /\ Snapshots(MaxSnapshots)
          /\ DeleteEvent(e)
    \/ \E r \in DOMAIN registrations :
          Starting(MaxInFlight) /\ DeleteRegistration(r)
    \/ \E w \in DOMAIN winners : Starting(MaxInFlight) /\ DeleteWinners(w)
    \/ \E p \in inflight : Event_save(p) /\ now' <= MaxTime
    \/ \E p \in inflight : post_save(p) /\ now' <= MaxTime
    \/ \E p \in inflight : Model_insert(p)
    \/ \E p \in inflight : Collector_collect(p)
    \/ \E p \in inflight : Collector_delete(p) /\ now' <= MaxTime

SpecEvents == Init /\ [][NextEvents]_vars

\* The operations on the winners of events: the DetailWinner records of the
\* users, the teams with their members and the Winners records, within
\* MaxWinnerIds identifiers, of which MaxOfModel for events, for DetailWinner
\* and for Winners records, MaxOwners users and MaxSaving requests with an
\* INSERT left to send under way: calls of members.add and saves of a Winners
\* record whose row is gone, of which one starts while no other is under way.
NextTeams ==
    \/ userSequence < MaxOwners /\ CreateUser
    \/ /\ Drawing(MaxWinnerIds) /\ Few("events", MaxOfModel)
       /\ Starting(MaxInFlight) /\ Snapshots(MaxSnapshots)
       /\ CreateEvent(NULL, NULL, AnEvent)
    \/ \E u \in IssuedUsers :
          /\ Drawing(MaxWinnerIds) /\ Few("details", MaxOfModel)
          /\ CreateDetailWinner(u)
    \/ Drawing(MaxWinnerIds) /\ CreateTeamWinner
    \/ \E e \in Issued("events"), f \in Issued("teams"),
          s \in OrNull("teams"), t \in OrNull("teams") :
          /\ Drawing(MaxWinnerIds) /\ Few("winners", MaxOfModel)
          /\ CreateWinners(e, f, s, t)
    \/ \E t \in Issued("teams"), d \in Issued("details") :
          AddMember(t, d) /\ Inserting(MaxSaving)
    \/ \E t \in Issued("teams"), d \in Issued("details") : RemoveMember(t, d)
    \/ \E w \in Issued("winners"), e \in Issued("events"),
          f \in Issued("teams"), s \in OrNull("teams"), t \in OrNull("teams") :
          /\ UpdateWinners(w, e, f, s, t)
          /\ result'.status = "missed" => Inserting(MaxInFlight)
    \/ \E u \in users : Starting(MaxInFlight) /\ DeleteUser(u)
    \/ \E d \in DOMAIN details : Starting(MaxInFlight) /\ DeleteDetailWinner(d)
    \/ \E t \in DOMAIN teams : Starting(MaxInFlight) /\ DeleteTeamWinner(t)
    \/ \E w \in DOMAIN winners : Starting(MaxInFlight) /\ DeleteWinners(w)
    \/ \E p \in inflight : Event_save(p) /\ now' <= MaxTime
    \/ \E p \in inflight : post_save(p) /\ now' <= MaxTime
    \/ \E p \in inflight : Model_insert(p)
    \/ \E p \in inflight : members_add(p)
    \/ \E p \in inflight : Collector_collect(p)
    \/ \E p \in inflight : Collector_delete(p) /\ now' <= MaxTime

SpecTeams == Init /\ [][NextTeams]_vars

\* The creations, updates and deletions of Winners records, with the events
\* and teams they name as first winner, within MaxWinnersIds identifiers, with
\* MaxSaving saves of a Winners record whose row is gone under way.
NextWinners ==
    \/ /\ Drawing(MaxWinnersIds)
       /\ Starting(MaxInFlight) /\ Snapshots(MaxSnapshots)
       /\ CreateEvent(NULL, NULL, AnEvent)
    \/ Drawing(MaxWinnersIds) /\ CreateTeamWinner
    \/ \E e \in Issued("events"), f \in Issued("teams") :
          Drawing(MaxWinnersIds) /\ CreateWinners(e, f, NULL, NULL)
    \/ \E w \in Issued("winners"), e \in Issued("events"),
          f \in Issued("teams") :
          UpdateWinners(w, e, f, NULL, NULL) /\ Inserting(MaxSaving)
    \/ \E w \in DOMAIN winners : Starting(MaxInFlight) /\ DeleteWinners(w)
    \/ \E p \in inflight : Event_save(p) /\ now' <= MaxTime
    \/ \E p \in inflight : post_save(p) /\ now' <= MaxTime
    \/ \E p \in inflight : Model_insert(p)
    \/ \E p \in inflight : Collector_delete(p) /\ now' <= MaxTime

SpecWinners == Init /\ [][NextWinners]_vars

\* The saves of Event instances, side by side.
NextAudit ==
    \/ \E data \in SavedData :
          /\ Drawing(MaxEventIds)
          /\ Starting(MaxSaving) /\ Snapshots(MaxHistory)
          /\ CreateEvent(NULL, NULL, data)
    \/ \E e \in DOMAIN events, data \in SavedData :
          /\ Starting(MaxSaving) /\ Snapshots(MaxHistory)
          /\ UpdateEvent(e, NULL, NULL, data)
    \/ \E p \in inflight : Event_save(p)
    \/ \E p \in inflight : post_save(p)

SpecAudit == Init /\ [][NextAudit]_vars

\* The saves and deletes of Event instances, side by side.
NextHistory ==
    \/ \E data \in SavedData :
          /\ Drawing(MaxEventIds)
          /\ Starting(MaxSaving) /\ Snapshots(MaxHistory)
          /\ CreateEvent(NULL, NULL, data)
    \/ \E e \in DOMAIN events, data \in SavedData :
          /\ Starting(MaxSaving) /\ Snapshots(MaxHistory)
          /\ UpdateEvent(e, NULL, NULL, data)
    \/ \E e \in DOMAIN events :
          /\ Starting(MaxSaving) /\ Snapshots(MaxHistory)
          /\ DeleteEvent(e)
    \/ \E p \in inflight : Event_save(p)
    \/ \E p \in inflight : Event_insert(p)
    \/ \E p \in inflight : post_save(p)
    \/ \E p \in inflight : Collector_collect(p)
    \/ \E p \in inflight : Collector_delete(p)

SpecHistory == Init /\ [][NextHistory]_vars

\* The requests of the Event endpoint.
NextApi ==
    \/ \E data \in EventData :
          /\ Drawing(MaxEventIds)
          /\ Starting(MaxSaving) /\ Snapshots(MaxHistory)
          /\ ApiCreateEvent(data)
    \/ \E e \in 1..MaxEventIds, data \in EventData :
          /\ Starting(MaxSaving) /\ Snapshots(MaxHistory)
          /\ ApiUpdateEvent(e, data)
    \/ \E e \in 1..MaxEventIds :
          /\ Starting(MaxSaving) /\ Snapshots(MaxHistory)
          /\ ApiDeleteEvent(e)
    \/ \E p \in inflight : Event_save(p)
    \/ \E p \in inflight : Event_insert(p)
    \/ \E p \in inflight : post_save(p)
    \/ \E p \in inflight : Collector_collect(p)
    \/ \E p \in inflight : Collector_delete(p)

SpecApi == Init /\ [][NextApi]_vars

\* The calls of path_and_rename.
NextUpload ==
    \E filename \in Filenames, uuid \in Tokens \cup {<<>>} : Upload(filename, uuid)

SpecUpload == InitInstance /\ [][NextUpload]_vars

\* The imports of registrations, with the users and events they refer to,
\* within MaxImportIds identifiers.
NextImport ==
    \/ userSequence < MaxUsers /\ CreateUser
    \/ /\ Drawing(MaxImportIds)
       /\ Starting(MaxInFlight) /\ Snapshots(MaxSnapshots)
       /\ CreateEvent(NULL, NULL, AnEvent)
    \/ \E u \in users, code \in Registration_permissions : GrantImport(u, code)
    \/ \E caller \in users, batch \in Batches :
          /\ Drawing(MaxImportIds - Len(batch) + 1)
          /\ ImportRegistrations(caller, batch)
    \/ \E u \in users : Starting(MaxInFlight) /\ DeleteUser(u)
    \/ \E p \in inflight : Event_save(p) /\ now' <= MaxTime
    \/ \E p \in inflight : post_save(p) /\ now' <= MaxTime
    \/ \E p \in inflight : Collector_collect(p)
    \/ \E p \in inflight : Collector_delete(p) /\ now' <= MaxTime

SpecImport == Init /\ [][NextImport]_vars
----------------------------------------------------------------------------
(* Properties of the deletes *)

\* The Winners rows that name the event e.
WinnersOf(e) == Referencing(winners, "eventName", {e})

\* The Winners rows that name the team t as first, second or third winner.
PlacesOf(t) ==
    Referencing(winners, "firstWinner", {t})
    \cup Referencing(winners, "secondWinner", {t})
    \cup Referencing(winners, "thirdWinner", {t})

\* The teams that the DetailWinner d is a member of.
TeamsOf(d) == {t \in DOMAIN teams : d \in teams[t].members}

\* The DetailWinner rows of the user u that are members of a team.
MembersOf(u) == {d \in Referencing(details, "user", {u}) : TeamsOf(d) # {}}

\* The step is the SELECT of the delete op that reads the relation col.
Reading(op, col) ==
    /\ result'.op = op
    /\ result'.key = col
    /\ result'.status \in {"collecting", "ProtectedError"}

\* The step is the transaction of a delete op.
Deleting(op) ==
    /\ result'.op = op
    /\ result'.status \in {"ok", "IntegrityError"}

\* The request that took the step, as it was before and as it is after.
Before == CHOOSE p \in inflight : p.request = result'.request

After == CHOOSE p \in inflight' : p.request = result'.request

\* The step ends its request and leaves every row as it was.
Refused == UNCHANGED dbvars /\ \A p \in inflight' : p.request # result'.request

\* C1: the delete of an Event that has a Winners record, when it comes to
\* read the Winners records, fails with a protected reference error and
\* changes nothing: the Event, its Winners record and every other row (its
\* registrations among them) stay as they were.  No step at all removes an
\* Event that a Winners record names.
C1_DeleteEventProtected ==
    [][/\ (Reading("DeleteEvent", "eventName") /\ WinnersOf(result'.id) # {})
          => (result'.status = "ProtectedError" /\ Refused)
       /\ \A e \in DOMAIN events : WinnersOf(e) # {} => e \in DOMAIN events']_vars

\* A refused delete of an event that has a Winners record and a registration.
C1_Witness ==
    /\ result.op = "DeleteEvent"
    /\ result.status = "ProtectedError"
    /\ result.id \in DOMAIN events
    /\ WinnersOf(result.id) # {}
    /\ Referencing(registrations, "registered_event", {result.id}) # {}

\* C2: the delete of an Event collects, with the Event, every Registration row
\* that references it, however many there are, and once the delete has gone
\* through the Event is removed and no Registration row references it.
C2_DeleteEventCascades ==
    [][/\ Reading("DeleteEvent", "registered_event")
          => /\ result'.status = "collecting"
             /\ After.rows = result'.rows
             /\ result'.rows =
                  [NoRows EXCEPT
                     !["events"] = {result'.id},
                     !["registrations"] =
                        Referencing(registrations, "registered_event",
                                    {result'.id})]
       /\ (Deleting("DeleteEvent") /\ result'.status = "ok")
          => /\ result'.id \notin DOMAIN events'
             /\ Referencing(registrations', "registered_event",
                            {result'.id}) = {}
             /\ result'.deleted =
                  Cardinality(DOMAIN events \ DOMAIN events')
                  + Cardinality(DOMAIN registrations \ DOMAIN registrations')]_vars

\* An event was deleted together with two registrations of it.
C2_Witness ==
    /\ result.op = "DeleteEvent"
    /\ result.status = "ok"
    /\ result.deleted = 3
    /\ result.id \notin DOMAIN events
    /\ registrations = <<>>

\* The columns of Winners that name a team.
Places == {"firstWinner", "secondWinner", "thirdWinner"}

\* The delete of a team that a Winners record names in the column it reads is
\* refused, and no step removes a team that a Winners record names.
TeamProtected ==
    /\ \A col \in Places :
         (/\ Reading("DeleteTeamWinner", col)
          /\ Referencing(winners, col, {result'.id}) # {})
         => (result'.status = "ProtectedError" /\ Refused)
    /\ \A t \in DOMAIN teams : PlacesOf(t) # {} => t \in DOMAIN teams'

WithoutMembers(f, S) == [x \in DOMAIN f |-> [f[x] EXCEPT !.members = @ \ S]]

C3_WitnessSecond ==
    /\ result.op = "DeleteTeamWinner"
    /\ result.status = "ProtectedError"
    /\ Referencing(winners, "firstWinner", {result.id}) = {}
    /\ PlacesOf(result.id) # {}

\* A user was deleted, and with it its DetailWinner and the row that made the
\* DetailWinner a member of a team that is still there.
C3_WitnessMember ==
    /\ result.op = "DeleteUser"
    /\ result.status = "ok"
    /\ result.deleted = 2
    /\ details = <<>>
    /\ \E t \in DOMAIN teams : teams[t].members = {} /\ PlacesOf(t) # {}

\* No two Winners rows name the same event.
AtMostOneWinners ==
    \A v \in DOMAIN winners, w \in DOMAIN winners :
        winners[v].eventName = winners[w].eventName => v = w

\* C6: an Event has at most one Winners record in every state, and a
\* statement that stores a Winners record (a new one, one moved to another
\* Event, or one inserted again after its row was deleted) is refused with an
\* integrity error if the Event has another Winners record; a statement that
\* is refused leaves every row as it was, and one that goes through stores
\* the row it was given and changes no other Winners record.  (An UPDATE
\* that matches no row stores nothing, and the INSERT that follows it is
\* refused if a row has the identifier by then.)
C6_AtMostOneWinners ==
    /\ []AtMostOneWinners
    /\ [][result'.op \in {"CreateWinners", "UpdateWinners"}
          => IF result'.status = "missed"
             THEN result'.id \notin DOMAIN winners /\ UNCHANGED dbvars
             ELSE IF result'.key = "PRIMARY"
             THEN /\ result'.status = "IntegrityError"
                  /\ result'.id \in DOMAIN winners
                  /\ UNCHANGED dbvars
             ELSE /\ WinnersOf(result'.data.eventName) \ {result'.id} # {}
                     => result'.status = "IntegrityError"
                  /\ IF result'.status = "ok"
                     THEN /\ result'.id \in DOMAIN winners'
                          /\ winners'[result'.id] = result'.data
                          /\ \A w \in DOMAIN winners' \ {result'.id} :
                               w \in DOMAIN winners /\ winners'[w] = winners[w]
                     ELSE /\ result'.status = "IntegrityError"
                          /\ UNCHANGED dbvars]_vars

\* A Winners record was refused only because its event already has one.
C6_Witness ==
    /\ result.op = "CreateWinners"
    /\ result.status = "IntegrityError"
    /\ WinnersOf(result.data.eventName) # {}
    /\ result.data.eventName \in DOMAIN events
    /\ result.data.firstWinner \in DOMAIN teams
    /\ PlacesOf(result.data.firstWinner) = {}
    /\ result.data.secondWinner = NULL
    /\ result.data.thirdWinner = NULL

\* Every reference is to a row that exists, or is NULL where the column is
\* nullable.
ReferentialIntegrity ==
    ForeignKeysHold(users, perms, categories, types, clubs, events,
                    registrations, details, teams, winners)

\* C10: referential integrity holds in every state, and the delete of an
\* EventType, of a Club or of an EventCategory (with its EventTypes) collects
\* no Event and removes none: it leaves the references of an Event as they
\* were or sets them to NULL.
C10_ReferentialIntegrity ==
    /\ []ReferentialIntegrity
    /\ [][result'.op \in {"DeleteEventType", "DeleteClub", "DeleteEventCategory"}
          => /\ result'.status = "collecting" => After.rows["events"] = {}
             /\ DOMAIN events' = DOMAIN events
             /\ \A e \in DOMAIN events :
                  /\ events'[e].eventType \in {events[e].eventType, NULL}
                  /\ events'[e].association \in {events[e].association, NULL}]_vars

\* An EventCategory was deleted with an EventType of it, and the Event of that
\* type is still there, without a type; a Sponsor or a Brochure drew the
\* first identifier.
C10_Witness ==
    /\ result.op = "DeleteEventCategory"
    /\ result.status = "ok"
    /\ result.deleted = 2
    /\ types = <<>>
    /\ sequence[1] \in {"sponsors", "brochures"}
    /\ \E i \in 1..Len(history) :
         /\ history[i].eventType # NULL
         /\ history[i].id \in DOMAIN events
         /\ events[history[i].id].eventType = NULL

\* A Winners record names an event and a team that has a member.
C10_WitnessMember ==
    /\ \E w \in DOMAIN winners :
         /\ winners[w].eventName \in DOMAIN events
         /\ teams[winners[w].firstWinner].members # {}
----------------------------------------------------------------------------
(* Properties of the saves of Event *)

\* The step is the statement of the save op of an Event that stores its row.
Saving(op) == result'.op = op /\ result'.status = "saved"

\* The step is the post_save signal of the save op of an Event.
Signalled(op) == result'.op = op /\ result'.status = "ok"

\* The creation timestamp of a row that stays is not changed by the step.
CreationKept ==
    \A e \in DOMAIN events \cap DOMAIN events' :
        events'[e].record_created = events[e].record_created

\* C4 as stated: the creation timestamp of a record is the one its first save
\* set, and every later save of the record changes its modification timestamp
\* and not its creation timestamp.
C4_EveryUpdateChangesModified ==
    [][/\ CreationKept
       /\ Saving("UpdateEvent")
          => events'[result'.id].record_modified
               # events[result'.id].record_modified]_vars

\* C4 as the code has it: the creation timestamp of a record is the one its
\* first save set (a reading of the clock during that save, not later than
\* the modification timestamp), and every later save of the record sets its
\* modification timestamp to a reading of the clock during that save, which
\* need not differ from the value the record had, and does not change its
\* creation timestamp.
C4_AuditTimestamps ==
    [][/\ CreationKept
       /\ Saving("CreateEvent")
          => /\ result'.id \notin DOMAIN events
             /\ events'[result'.id].record_created \in Before.clock..now'
             /\ events'[result'.id].record_modified \in Before.clock..now'
             /\ events'[result'.id].record_created
                  <= events'[result'.id].record_modified
       /\ Saving("UpdateEvent")
          => /\ events'[result'.id].record_created
                  = events[result'.id].record_created
             /\ events'[result'.id].record_modified \in Before.clock..now'
             /\ \A e \in DOMAIN events \ {result'.id} :
                  e \in DOMAIN events' /\ events'[e] = events[e]]_vars

\* The positions of the snapshots of the event id with the given kind.
SnapshotsOf(id, type) ==
    {i \in 1..Len(history) : history[i].id = id /\ history[i].history_type = type}

\* An event was saved three times, created and then updated twice, and its
\* modification timestamp is later than its creation timestamp.
C4_Witness ==
    /\ result.op = "UpdateEvent"
    /\ result.status = "saved"
    /\ result.id \in DOMAIN events
    /\ Cardinality(SnapshotsOf(result.id, "~")) = 1
    /\ Cardinality(SnapshotsOf(result.id, "-")) = 0
    /\ events[result.id].record_modified > events[result.id].record_created

\* Every stored event has team sizes of at least 0.
TeamSizesValid ==
    \A e \in DOMAIN events : events[e].minTeam >= 0 /\ events[e].maxTeam >= 0

\* C5: a request that creates an Event with minTeam = -1 or maxTeam = -1 is
\* answered with a validation error and stores nothing, and every Event that
\* is stored has minTeam >= 0 and maxTeam >= 0.
C5_TeamSizesValidated ==
    /\ []TeamSizesValid
    /\ [][(/\ result'.op = "CreateEvent"
           /\ result'.data.minTeam = -1 \/ result'.data.maxTeam = -1)
          => /\ result'.status = "ValidationError"
             /\ UNCHANGED <<dbvars, inflight>>]_vars

\* A create with minTeam = -1 and a valid maxTeam was refused.
C5_Witness ==
    /\ result.op = "CreateEvent"
    /\ result.status = "ValidationError"
    /\ result.data.minTeam = -1
    /\ result.data.maxTeam = 0
    /\ events # <<>>

\* C8: each update of an Event adds to the history one snapshot with the field
\* values of that change, after the snapshots that were there, which no step
\* alters or removes; the snapshot is not earlier than any snapshot that the
\* history had when the update was saved, so the snapshots of two updates,
\* one after the other, are in chronological order.
C8_HistoryAppendOnly ==
    [][/\ Len(history') >= Len(history)
       /\ SubSeq(history', 1, Len(history)) = history
       /\ Signalled("UpdateEvent")
          => /\ Len(history') = Len(history) + 1
             /\ history'[Len(history')] =
                  Snapshot(Before.instances[1],
                           IF Before.created THEN "+" ELSE "~",
                           history'[Len(history')].history_date)
             /\ history'[Len(history')].id = result'.id
             /\ DataOf(history'[Len(history')]) = result'.data
             /\ \A i \in 1..Before.seen :
                  history[i].history_date
                    <= history'[Len(history')].history_date]_vars

\* The name of an event was changed twice, and the history holds a snapshot of
\* each change, the first one with the first name, the second with the second.
C8_Witness ==
    \E i \in 1..Len(history), j \in 1..Len(history) :
        /\ i < j
        /\ history[i].id = history[j].id
        /\ history[i].history_type = "~" /\ history[j].history_type = "~"
        /\ history[i].name = "b" /\ history[j].name = "a"
        /\ history[i].history_date < history[j].history_date
        /\ history[j].id \in DOMAIN events
        /\ events[history[j].id].name = "a"

----------------------------------------------------------------------------
(* Properties of path_and_rename and of the import *)

\* The text after the last "." of the name (the whole name without a ".").
AfterLastDot(name) ==
    LET dots == {i \in 1..Len(name) : name[i] = "."}
        k == IF dots = {} THEN 0 ELSE CHOOSE i \in dots : \A j \in dots : j <= i
    IN  SubSeq(name, k + 1, Len(name))

\* C9: path_and_rename returns "PanCard/<stem>.<ext>", where <ext> is the text
\* after the last "." of the uploaded name and <stem> is the user name of the
\* owner when the DetailWinner has an identifier, so the value depends on
\* nothing else, and the random token that was drawn when it has none; the
\* stem is never taken from the uploaded name.
C9_PathAndRename ==
    upload.filename # <<>> =>
        /\ upload.pk = NULL => upload.uuid \in Tokens
        /\ upload.path =
             PanCard \o <<"/">>
             \o (IF upload.pk # NULL THEN upload.username ELSE upload.uuid)
             \o <<".">> \o AfterLastDot(upload.filename)

\* A name with two dots, uploaded for a saved DetailWinner whose user name is
\* not the stem of the uploaded name.
C9_Witness ==
    /\ upload.pk # NULL
    /\ upload.username = <<"u">>
    /\ upload.filename = <<"a", ".", "b", "a">> \/ upload.filename = <<"a", ".", ".", "b">>
    /\ upload.path # <<>>

\* The rows of the batch are in the table f2 and were not in f1.
AllPresent(f1, f2, batch) ==
    /\ DOMAIN f1 \subseteq DOMAIN f2
    /\ \A x \in DOMAIN f1 : f2[x] = f1[x]
    /\ Cardinality(DOMAIN f2) = Cardinality(DOMAIN f1) + Len(batch)
    /\ \A row \in {batch[i] : i \in 1..Len(batch)} :
         Cardinality({x \in DOMAIN f2 \ DOMAIN f1 : f2[x] = row})
           = Cardinality({i \in 1..Len(batch) : batch[i] = row})

\* C7: an import of registrations by a caller without the import permission
\* is refused with PermissionDenied and stores nothing; by a caller with the
\* permission it stores every row of the batch, or no row at all if a row of
\* the batch cannot be saved.
C7_ImportAtomic ==
    [][result'.op = "ImportRegistrations"
       => LET caller == result'.id
              batch == report'.batch
          IN  IF <<caller, "allowed_import">> \notin perms
              THEN /\ result'.status = "PermissionDenied"
                   /\ registrations' = registrations
              ELSE IF \A i \in 1..Len(batch) : RowValid(batch[i])
              THEN /\ result'.status = "ok"
                   /\ AllPresent(registrations, registrations', batch)
              ELSE /\ result'.status = "RowError"
                   /\ registrations' = registrations]_vars

\* An import of two rows, one of which could be saved and one not, by a caller
\* with the permission: nothing was stored.
C7_Witness ==
    /\ result.op = "ImportRegistrations"
    /\ result.status = "RowError"
    /\ Len(report.batch) = 2 /\ report.errors = 1 /\ report.saved = 0
    /\ registrations # <<>>

============================================================================
